---- MODULE Spec2Model ----
(***************************************************************************)
(* Model of the byte tokenizer of src/tokenizer.rs: TokenIterator wraps a  *)
(* Peekable<Bytes<File>> and Iterator::next runs a loop that pulls one     *)
(* item, peeks the following one and dispatches on a local Mode.           *)
(*                                                                         *)
(* Bytes are the integers 0..255.  An item delivered by the byte source is *)
(* a byte, ERR (Some(Err(_)), a read failure) or EOF (None).               *)
(***************************************************************************)
EXTENDS Integers, Sequences, FiniteSets, TLC

VARIABLES src, gen, pos, peeked, pc, mode, buf, results, panicked, pulled

vars == <<src, gen, pos, peeked, pc, mode, buf, results, panicked, pulled>>

(***************************************************************************)
(* Bounds of the model.                                                    *)
(***************************************************************************)
MaxLen == 3
MaxIdLen == 3
MaxZeros == 2
MaxLex == 3
MaxExtraCalls == 2
MaxFairLen == 2

(***************************************************************************)
(* Byte values.                                                            *)
(***************************************************************************)
Byte == 0..255
ERR == 256
EOF == -1

CR == 13
LF == 10
SP == 32
Minus == 45
Plus == 43

I32Max == 2147483647
I32Min == (-2147483647) - 1

(***************************************************************************)
(* Token values.  Text carries its bytes, Number its value; NoMore is the  *)
(* None returned by Iterator::next.                                        *)
(***************************************************************************)
Tok(k, b, v) == [kind |-> k, bytes |-> b, val |-> v]
TokText(b) == Tok("Text", b, 0)
TokNumber(v) == Tok("Number", <<>>, v)
TokPunct(k) == Tok(k, <<>>, 0)
NoMore == Tok("NoMore", <<>>, 0)

(***************************************************************************)
(* Byte classes of the match patterns.                                     *)
(***************************************************************************)
\* Mutant: the extended letters as one range 0xC0 ... 0xFF.
LetterByteWide(b) ==
    \/ b = 95
    \/ b \in 65..90
    \/ b \in 97..122
    \/ b \in 192..255

\* The letter pattern that starts a Text token (Mode::None).
LetterByte(b) ==
    \/ b = 95
    \/ b \in 65..90
    \/ b \in 97..122
    \/ b \in 192..214
    \/ b \in 216..246
    \/ b \in 248..255

\* Mutant: the first lookahead pattern copied from the letter pattern,
\* without the digits.
LetterPeekNoDigits(b) ==
    \/ b = 95
    \/ b \in 65..90
    \/ b \in 97..122
    \/ b \in 192..214
    \/ b \in 216..246
    \/ b \in 248..255

\* The lookahead pattern tested after the first letter (Mode::None).
LetterPeek(b) ==
    \/ b = 95
    \/ b \in 48..57
    \/ b \in 65..90
    \/ b \in 97..122
    \/ b \in 192..214
    \/ b \in 216..246
    \/ b \in 248..255

\* Mutant: the Mode::Text lookahead pattern copied from the letter pattern,
\* without the digits.
TextPeekNoDigits(b) ==
    \/ b = 95
    \/ b \in 65..90
    \/ b \in 97..122
    \/ b \in 192..214
    \/ b \in 216..246
    \/ b \in 248..255

\* The lookahead pattern tested inside a Text token (Mode::Text).
TextPeek(b) ==
    \/ b = 95
    \/ b \in 48..57
    \/ b \in 65..90
    \/ b \in 97..122
    \/ b \in 192..214
    \/ b \in 216..246
    \/ b \in 248..255

\* b'0' ... b'9'
DigitByte(b) == b \in 48..57

\* Mutant: the '$' and '#' arms return each other's token.
PunctKindSwapped(b) ==
    CASE b = 40 -> "LParen"
      [] b = 41 -> "RParen"
      [] b = 36 -> "Hash"
      [] b = 35 -> "Dollar"
      [] b = 61 -> "Equals"
      [] b = 44 -> "Comma"
      [] OTHER -> ""

\* The six single-byte tokens; "" for any other byte.
PunctKind(b) ==
    CASE b = 40 -> "LParen"
      [] b = 41 -> "RParen"
      [] b = 36 -> "Dollar"
      [] b = 35 -> "Hash"
      [] b = 61 -> "Equals"
      [] b = 44 -> "Comma"
      [] OTHER -> ""

(***************************************************************************)
(* str::parse::<i32>: optional sign, at least one digit, checked           *)
(* accumulation (negative numbers are accumulated downwards).              *)
(***************************************************************************)
\* Mutant: saturating instead of checked arithmetic.
RECURSIVE ParseDigitsSaturating(_, _, _, _)
ParseDigitsSaturating(s, i, acc, neg) ==
    IF i > Len(s) THEN [ok |-> TRUE, val |-> acc]
    ELSE IF ~DigitByte(s[i]) THEN [ok |-> FALSE, val |-> 0]
    ELSE LET d == s[i] - 48 IN
         IF neg
         THEN IF acc < -(I32Max \div 10) \/ acc * 10 < I32Min + d
              THEN ParseDigitsSaturating(s, i + 1, I32Min, neg)
              ELSE ParseDigitsSaturating(s, i + 1, acc * 10 - d, neg)
         ELSE IF acc > I32Max \div 10 \/ acc * 10 > I32Max - d
              THEN ParseDigitsSaturating(s, i + 1, I32Max, neg)
              ELSE ParseDigitsSaturating(s, i + 1, acc * 10 + d, neg)

RECURSIVE ParseDigits(_, _, _, _)
ParseDigits(s, i, acc, neg) ==
    IF i > Len(s) THEN [ok |-> TRUE, val |-> acc]
    ELSE IF ~DigitByte(s[i]) THEN [ok |-> FALSE, val |-> 0]
    ELSE LET d == s[i] - 48 IN
         IF neg
         THEN IF acc < -(I32Max \div 10) THEN [ok |-> FALSE, val |-> 0]
              ELSE IF acc * 10 < I32Min + d THEN [ok |-> FALSE, val |-> 0]
              ELSE ParseDigits(s, i + 1, acc * 10 - d, neg)
         ELSE IF acc > I32Max \div 10 THEN [ok |-> FALSE, val |-> 0]
              ELSE IF acc * 10 > I32Max - d THEN [ok |-> FALSE, val |-> 0]
              ELSE ParseDigits(s, i + 1, acc * 10 + d, neg)

\* Mutant: the sign is skipped and not applied.
ParseI32IgnoresSign(s) ==
    IF s = <<>> THEN [ok |-> FALSE, val |-> 0]
    ELSE IF s[1] \in {Minus, Plus}
         THEN IF Len(s) = 1 THEN [ok |-> FALSE, val |-> 0]
              ELSE ParseDigits(Tail(s), 1, 0, FALSE)
         ELSE ParseDigits(s, 1, 0, FALSE)

ParseI32(s) ==
    IF s = <<>> THEN [ok |-> FALSE, val |-> 0]
    ELSE IF s[1] \in {Minus, Plus}
         THEN IF Len(s) = 1 THEN [ok |-> FALSE, val |-> 0]
              ELSE ParseDigits(Tail(s), 1, 0, s[1] = Minus)
         ELSE ParseDigits(s, 1, 0, FALSE)

(***************************************************************************)
(* The outcome of one loop iteration's dispatch: the new mode and buffer,  *)
(* the value returned (a sequence of at most one token) and the panic      *)
(* message ("" when the iteration does not panic).                         *)
(***************************************************************************)
Outcome(m, b, r, p) == [mode |-> m, buf |-> b, ret |-> r, panic |-> p]

\* emit_token_number!: parse the buffer, unwrap() panics on a parse error.
EmitTokenNumber(m, b) ==
    LET r == ParseI32(b) IN
    IF r.ok THEN Outcome(m, b, <<TokNumber(r.val)>>, "")
    ELSE Outcome(m, b, <<>>, "ParseIntError")

\* emit_token_text!: the token holds a copy of the buffer.
EmitTokenText(m, b) == Outcome(m, b, <<TokText(b)>>, "")

\* Mutant: Mode::Text is entered whenever there is a lookahead byte.
NoneLetterEager(byte, pk) ==
    IF pk # EOF
    THEN Outcome("Text", <<byte>>, <<>>, "")
    ELSE EmitTokenText("None", <<byte>>)

\* Mode::None, a letter: start the buffer, look ahead.
NoneLetter(byte, pk) ==
    IF pk # EOF /\ LetterPeek(pk)
    THEN Outcome("Text", <<byte>>, <<>>, "")
    ELSE EmitTokenText("None", <<byte>>)

\* Mode::None, a digit.
NoneDigit(byte, pk) ==
    IF pk # EOF /\ DigitByte(pk)
    THEN Outcome("Number", <<byte>>, <<>>, "")
    ELSE EmitTokenNumber("None", <<byte>>)

\* Mutant: a minus sign starts a number whatever follows it.
NoneMinusLenient(byte, pk) == Outcome("Number", <<byte>>, <<>>, "")

\* Mode::None, a minus sign.
NoneMinus(byte, pk) ==
    IF pk # EOF /\ DigitByte(pk)
    THEN Outcome("Number", <<byte>>, <<>>, "")
    ELSE Outcome("None", <<byte>>, <<>>, "MinusWithoutNumber")

\* Mode::None, one of ( ) $ # = ,
NonePunct(byte, b) == Outcome("None", b, <<TokPunct(PunctKind(byte))>>, "")

\* Mutant: no arm for the space, which falls to the catch-all panic.
NoneSpaceUnhandled(b) == Outcome("None", b, <<>>, "UnhandledByte")

\* Mode::None, a space: nothing happens.
NoneSpace(b) == Outcome("None", b, <<>>, "")

\* Mode::None, a carriage return.
NoneCR(b) == Outcome("Newline", b, <<>>, "")

\* Mode::None: the match on the byte, arms in source order.
ModeNone(byte, pk, b) ==
    IF byte = CR THEN NoneCR(b)
    ELSE IF LetterByte(byte) THEN NoneLetter(byte, pk)
    ELSE IF DigitByte(byte) THEN NoneDigit(byte, pk)
    ELSE IF byte = Minus THEN NoneMinus(byte, pk)
    ELSE IF PunctKind(byte) # "" THEN NonePunct(byte, b)
    ELSE IF byte = SP THEN NoneSpace(b)
    ELSE Outcome("None", b, <<>>, "UnhandledByte")

\* Mutant: a byte other than LF after CR is skipped and the scan goes on.
ModeNewlineSkips(byte, b) == Outcome("None", b, <<>>, "")

\* Mode::Newline: a line feed does nothing (the mode is not changed),
\* any other byte panics.
ModeNewline(byte, b) ==
    IF byte = LF THEN Outcome("Newline", b, <<>>, "")
    ELSE Outcome("Newline", b, <<>>, "CRWithoutLF")

\* Mutant: with no lookahead the loop goes on and the token is lost.
ModeTextDropsAtEnd(byte, pk, b) ==
    IF pk = EOF \/ TextPeek(pk)
    THEN Outcome("Text", Append(b, byte), <<>>, "")
    ELSE EmitTokenText("Text", Append(b, byte))

\* Mode::Text: push the byte, look ahead.
ModeText(byte, pk, b) ==
    IF pk # EOF /\ TextPeek(pk)
    THEN Outcome("Text", Append(b, byte), <<>>, "")
    ELSE EmitTokenText("Text", Append(b, byte))

\* Mode::Number: push the byte, look ahead.
ModeNumber(byte, pk, b) ==
    IF pk # EOF /\ DigitByte(pk)
    THEN Outcome("Number", Append(b, byte), <<>>, "")
    ELSE EmitTokenNumber("Number", Append(b, byte))

\* match mode { ... }
Dispatch(m, byte, pk, b) ==
    CASE m = "None" -> ModeNone(byte, pk, b)
      [] m = "Newline" -> ModeNewline(byte, b)
      [] m = "Text" -> ModeText(byte, pk, b)
      [] m = "Number" -> ModeNumber(byte, pk, b)

(***************************************************************************)
(* The byte source.  Bytes<File>::next delivers the items of the source in *)
(* order and None at the end of the file; Peekable keeps one item in its   *)
(* slot (<<>> when the slot is empty).                                     *)
(***************************************************************************)
\* Mutant: the read does not advance the position.
BytesNextStuck(s, p) ==
    IF p < Len(s) THEN [item |-> s[p + 1], pos |-> p]
    ELSE [item |-> EOF, pos |-> p]

BytesNext(s, p) ==
    IF p < Len(s) THEN [item |-> s[p + 1], pos |-> p + 1]
    ELSE [item |-> EOF, pos |-> p]

\* Mutant: the pull reads the source and drops the item in the slot.
PeekableNextSkipsSlot(s, p, slot) ==
    LET r == BytesNext(s, p) IN [item |-> r.item, pos |-> r.pos, slot |-> <<>>]

\* Peekable::next: the slot's item if there is one, else the source's next.
PeekableNext(s, p, slot) ==
    IF slot # <<>> THEN [item |-> slot[1], pos |-> p, slot |-> <<>>]
    ELSE LET r == BytesNext(s, p) IN [item |-> r.item, pos |-> r.pos, slot |-> <<>>]

\* Peekable::peek: fills the slot when it is empty.
PeekablePeek(s, p, slot) ==
    IF slot # <<>> THEN [item |-> slot[1], pos |-> p, slot |-> slot]
    ELSE LET r == BytesNext(s, p) IN [item |-> r.item, pos |-> r.pos, slot |-> <<r.item>>]

\* let peeked = match peek { None | Some(&Err(_)) => None, Some(&Ok(v)) => Some(v) }
PeekedByte(item) == IF item \in Byte THEN item ELSE EOF

(***************************************************************************)
(* One iteration of the loop of Iterator::next, as a function of the       *)
(* scanner's state st = [pos, peeked, mode, buf].  The result adds         *)
(*   ret     the value returned: <<>> (the loop goes on) or <<token>>,     *)
(*   panic   the panic message or "",                                      *)
(*   took    whether an item of the source was consumed by the pull.       *)
(***************************************************************************)
\* Mutant: a failed read is skipped and the loop pulls again.
LoopIterSkipsErr(s, st) ==
    LET n == PeekableNext(s, st.pos, st.peeked)
        k == PeekablePeek(s, n.pos, n.slot)
    IN  IF n.item = EOF
        THEN [pos |-> k.pos, peeked |-> k.slot, mode |-> st.mode, buf |-> st.buf,
              ret |-> <<NoMore>>, panic |-> "", took |-> FALSE]
        ELSE IF n.item = ERR
        THEN [pos |-> k.pos, peeked |-> k.slot, mode |-> st.mode, buf |-> st.buf,
              ret |-> <<>>, panic |-> "", took |-> TRUE]
        ELSE LET o == Dispatch(st.mode, n.item, PeekedByte(k.item), st.buf)
             IN  [pos |-> k.pos, peeked |-> k.slot, mode |-> o.mode, buf |-> o.buf,
                  ret |-> o.ret, panic |-> o.panic, took |-> TRUE]

LoopIter(s, st) ==
    LET n == PeekableNext(s, st.pos, st.peeked)
        k == PeekablePeek(s, n.pos, n.slot)
    IN  IF n.item \notin Byte
        THEN [pos |-> k.pos, peeked |-> k.slot, mode |-> st.mode, buf |-> st.buf,
              ret |-> <<NoMore>>, panic |-> "", took |-> n.item # EOF]
        ELSE LET o == Dispatch(st.mode, n.item, PeekedByte(k.item), st.buf)
             IN  [pos |-> k.pos, peeked |-> k.slot, mode |-> o.mode, buf |-> o.buf,
                  ret |-> o.ret, panic |-> o.panic, took |-> TRUE]

\* The scanner's state carried by an iteration's result.
StateOf(r) == [pos |-> r.pos, peeked |-> r.peeked, mode |-> r.mode, buf |-> r.buf]

\* Mutant: buf hoisted into a field of the iterator, not cleared by a call.
EnterKeepsBuf(st) == [pos |-> st.pos, peeked |-> st.peeked, mode |-> "None", buf |-> st.buf]

\* Mutant: mode hoisted into a field of the iterator, not reset by a call.
EnterKeepsMode(st) == [pos |-> st.pos, peeked |-> st.peeked, mode |-> st.mode, buf |-> <<>>]

\* let mut mode = Mode::None; let mut buf = Vec::new();
\* Only the iterator (position and slot) is a field of TokenIterator.
EnterState(st) == [pos |-> st.pos, peeked |-> st.peeked, mode |-> "None", buf |-> <<>>]

\* TokenIterator::new: nothing read yet, the slot empty.  mode and buf do
\* not exist between calls; the model gives them their entry values.
NewState == [pos |-> 0, peeked |-> <<>>, mode |-> "None", buf |-> <<>>]

\* The loop of one call of next, run until it returns or panics.
RECURSIVE RunLoop(_, _)
RunLoop(s, st) ==
    LET r == LoopIter(s, st) IN
    IF r.ret # <<>> \/ r.panic # "" THEN r ELSE RunLoop(s, StateOf(r))

\* One call of Iterator::next from the state the previous call left.
CallNext(s, st) == RunLoop(s, EnterState(st))

\* The calls a for-loop over the iterator makes: tokens until the first
\* None or panic.
RECURSIVE Collect(_, _, _)
Collect(s, st, acc) ==
    LET r == CallNext(s, st) IN
    IF r.panic # "" THEN [toks |-> acc, end |-> "Panic"]
    ELSE IF r.ret[1] = NoMore THEN [toks |-> acc, end |-> "NoMore"]
    ELSE Collect(s, StateOf(r), Append(acc, r.ret[1]))

Tokenize(s) == Collect(s, NewState, <<>>)

(***************************************************************************)
(* Inputs.  gen records how the input was built:                           *)
(*   <<"raw">>    any short sequence of items over Core,                   *)
(*   <<"pair">>   one byte and its lookahead,                              *)
(*   <<"ident">>  an ASCII identifier,                                     *)
(*   <<"xident">> an identifier over the extended letter ranges,           *)
(*   <<"example">> the inputs  ab(  and  12a,                              *)
(*   <<"num", neg, zeros, q, d>>  sign, leading zeros, the decimal digits  *)
(*                of q (none when q = 0) and a last digit d,               *)
(*   <<"lex", ls, sp>>  lexemes of LexTable, sp[i] spaces after the i-th.  *)
(***************************************************************************)
SeqsUpTo(S, n) == UNION {[1..k -> S] : k \in 0..n}

Core == {SP, CR, LF, 97, 49, Minus, 40, ERR}

PairFirst == {40, 41, 36, 35, 61, 44, Minus, CR, 97}

PairInputs ==
    {<<b, c>> : b \in PairFirst, c \in Byte}
        \cup {<<b>> \o t : b \in Byte, t \in SeqsUpTo(Core, 1)}
        \cup {<<97, 97, c>> : c \in Byte}

IdentSample == {65, 90, 97, 122, 95, 48, 57}

IdentInputs ==
    {s \in SeqsUpTo(IdentSample, MaxIdLen) : s # <<>> /\ s[1] \notin 48..57}

\* Identifiers over the ends of the extended letter ranges.
ExtIdentSample == {192, 214, 216, 246, 248, 255, 57}

ExtIdentInputs ==
    {s \in SeqsUpTo(ExtIdentSample, MaxIdLen) : s # <<>> /\ s[1] # 57}

\* ab(  and  12a
ExampleInputs == {<<97, 98, 40>>, <<49, 50, 97>>}

\* The decimal digits of n > 0, as bytes, most significant first.
RECURSIVE DecimalText(_)
DecimalText(n) ==
    IF n = 0 THEN <<>> ELSE Append(DecimalText(n \div 10), 48 + (n % 10))

NumHeads == {0, 1, 12, 214748363, 214748364, 214748365, 999999999, I32Max}

NumText(neg, zeros, q, d) ==
    (IF neg THEN <<Minus>> ELSE <<>>) \o [i \in 1..zeros |-> 48]
        \o DecimalText(q) \o <<48 + d>>

\* Whether sign * (10 q + d) is an i32, and that value.
NumInRange(neg, q, d) ==
    \/ q < 214748364
    \/ q = 214748364 /\ d <= (IF neg THEN 8 ELSE 7)

NumValue(neg, q, d) == IF neg THEN (0 - q * 10) - d ELSE q * 10 + d

NumGens ==
    {<<"num", neg, z, q, d>> : neg \in BOOLEAN, z \in 0..MaxZeros,
                               q \in NumHeads, d \in 0..9}

\* Lexemes: their bytes, the token each stands for and their class.
LexTable ==
    << [text |-> <<102, 111, 111>>, tok |-> TokText(<<102, 111, 111>>), cls |-> "id"],
       [text |-> <<52, 50>>, tok |-> TokNumber(42), cls |-> "num"],
       [text |-> <<45, 51>>, tok |-> TokNumber(-3), cls |-> "neg"],
       [text |-> <<40>>, tok |-> TokPunct("LParen"), cls |-> "punct"],
       [text |-> <<44>>, tok |-> TokPunct("Comma"), cls |-> "punct"],
       [text |-> <<36>>, tok |-> TokPunct("Dollar"), cls |-> "punct"],
       [text |-> <<41>>, tok |-> TokPunct("RParen"), cls |-> "punct"] >>

\* Two adjacent lexemes that would be read as one without a space.
Merges(a, b) ==
    \/ LexTable[a].cls = "id" /\ LexTable[b].cls \in {"id", "num"}
    \/ LexTable[a].cls \in {"num", "neg"} /\ LexTable[b].cls = "num"

RECURSIVE LexText(_, _, _)
LexText(ls, sp, i) ==
    IF i > Len(ls) THEN <<>>
    ELSE LexTable[ls[i]].text \o [j \in 1..sp[i] |-> SP] \o LexText(ls, sp, i + 1)

LexTokens(ls) == [i \in 1..Len(ls) |-> LexTable[ls[i]].tok]

LexWellSpaced(ls, sp) ==
    \A i \in 1..(Len(ls) - 1) : Merges(ls[i], ls[i + 1]) => sp[i] >= 1

\* ( foo $ 42 , -3 )  written  (foo $ 42 , -3)
ExampleLex == <<"lex", <<4, 1, 6, 2, 5, 3, 7>>, <<0, 1, 1, 1, 1, 0, 0>>>>

LexGens ==
    {ExampleLex} \cup
    UNION { {<<"lex", ls, sp>> : ls \in [1..n -> 1..Len(LexTable)],
                                 sp \in {f \in [1..n -> 0..1] : f[n] = 0}} :
            n \in 1..MaxLex }

(***************************************************************************)
(* The state machine.  pc is "idle" between calls of next, "loop" inside   *)
(* one and "panic" once a panic has aborted the scan.  results lists what  *)
(* the calls returned; pulled lists, for every item the loop took from the *)
(* source, the mode the loop was in when it took it.                       *)
(***************************************************************************)
Init ==
    /\ \/ gen = <<"raw">> /\ src \in SeqsUpTo(Core, MaxLen)
       \/ gen = <<"pair">> /\ src \in PairInputs
       \/ gen = <<"ident">> /\ src \in IdentInputs
       \/ gen = <<"xident">> /\ src \in ExtIdentInputs
       \/ gen = <<"example">> /\ src \in ExampleInputs
       \/ gen \in NumGens /\ src = NumText(gen[2], gen[3], gen[4], gen[5])
       \/ gen \in {g \in LexGens : LexWellSpaced(g[2], g[3])}
             /\ src = LexText(gen[2], gen[3], 1)
    /\ pos = NewState.pos
    /\ peeked = NewState.peeked
    /\ mode = NewState.mode
    /\ buf = NewState.buf
    /\ pc = "idle"
    /\ results = <<>>
    /\ panicked = ""
    /\ pulled = <<>>

Scanner == [pos |-> pos, peeked |-> peeked, mode |-> mode, buf |-> buf]

Ends == Cardinality({i \in DOMAIN results : results[i] = NoMore})

\* A call of next begins (the caller may call again after None).
NextEnter ==
    /\ pc = "idle"
    /\ Ends <= MaxExtraCalls
    /\ LET st == EnterState(Scanner) IN
         /\ pos' = st.pos
         /\ peeked' = st.peeked
         /\ mode' = st.mode
         /\ buf' = st.buf
    /\ pc' = "loop"
    /\ UNCHANGED <<src, gen, results, panicked, pulled>>

\* One iteration of the loop: pull, peek, dispatch.
NextLoop ==
    /\ pc = "loop"
    /\ LET r == LoopIter(src, Scanner) IN
         /\ pos' = r.pos
         /\ peeked' = r.peeked
         /\ mode' = r.mode
         /\ buf' = r.buf
         /\ panicked' = r.panic
         /\ results' = IF r.panic = "" THEN results \o r.ret ELSE results
         /\ pc' = IF r.panic # "" THEN "panic"
                  ELSE IF r.ret # <<>> THEN "idle" ELSE "loop"
         /\ pulled' = IF r.took THEN Append(pulled, mode) ELSE pulled
    /\ UNCHANGED <<src, gen>>

Next == NextEnter \/ NextLoop

Spec == Init /\ [][Next]_vars

\* The loop always takes its next step and the caller keeps calling next.
\* The behaviours are those of Spec on the raw inputs of at most MaxFairLen
\* items, the two examples and the example of lexemes.
FairInit ==
    /\ Init
    /\ \/ gen[1] = "raw" /\ Len(src) <= MaxFairLen
       \/ gen[1] = "example"
       \/ gen = ExampleLex

FairSpec == FairInit /\ [][Next]_vars /\ WF_vars(Next)

(***************************************************************************)
(* Vocabulary of the properties.                                           *)
(***************************************************************************)
\* The input holds bytes only (no read failure).
BytesOnly(s) == \A i \in DOMAIN s : s[i] \in Byte

\* The tokens returned so far, without the None results.
Emitted == SelectSeq(results, LAMBDA t : t # NoMore)

\* The calls so far returned the tokens of expected, in order, and None
\* after them.
ResultsWithin(expected) ==
    \A i \in DOMAIN results :
        results[i] = IF i <= Len(expected) THEN expected[i] ELSE NoMore

\* The scan is over: it panicked, or a call has returned None.
ScanDone == pc = "panic" \/ (pc = "idle" /\ Ends >= 1)

\* The item the next pull takes and the one after it, by position in the
\* input (the k-th item pulled is the k-th item of the input).
ItemAt(i) == IF i \in DOMAIN src THEN src[i] ELSE EOF
PullItem == ItemAt(Len(pulled) + 1)
LookItem == ItemAt(Len(pulled) + 2)

\* The six punctuation bytes and their tokens.
PunctBytes == {40, 41, 36, 35, 61, 44}
PunctOf(b) ==
    CASE b = 40 -> TokPunct("LParen")
      [] b = 41 -> TokPunct("RParen")
      [] b = 36 -> TokPunct("Dollar")
      [] b = 35 -> TokPunct("Hash")
      [] b = 61 -> TokPunct("Equals")
      [] b = 44 -> TokPunct("Comma")

\* Spaces and well-formed CR LF pairs only.
BlankInput(s) ==
    /\ \A i \in DOMAIN s : s[i] \in {SP, CR, LF}
    /\ \A i \in DOMAIN s : s[i] = CR => (i < Len(s) /\ s[i + 1] = LF)
    /\ \A i \in DOMAIN s : s[i] = LF => (i > 1 /\ s[i - 1] = CR)

\* [A-Za-z_][A-Za-z0-9_]*
AsciiIdent(s) ==
    /\ s # <<>>
    /\ s[1] \in (65..90) \cup (97..122) \cup {95}
    /\ \A i \in DOMAIN s : s[i] \in (65..90) \cup (97..122) \cup {95} \cup (48..57)

(***************************************************************************)
(* C1.  An input made only of spaces and well-formed CR LF pairs yields no *)
(* token and no panic: every call returns None.                            *)
(* Fails: after CR LF the mode is still Newline, so any byte but LF that   *)
(* follows a CR LF pair panics.                                            *)
(***************************************************************************)
C1_BlankInputYieldsNothing ==
    BlankInput(src) => panicked = "" /\ ResultsWithin(<<>>)

(***************************************************************************)
(* C2.  A CR pulled in Mode::None that is not directly followed by LF      *)
(* makes the scan panic with the CR-without-LF message: once such a CR has *)
(* been pulled the call is either still at it or has panicked.             *)
(* Fails: a CR that is the last byte makes the call return None.           *)
(***************************************************************************)
LoneCRAt(i) ==
    /\ src[i] = CR
    /\ pulled[i] = "None"
    /\ ItemAt(i + 1) # LF

C2_LoneCRPanics ==
    BytesOnly(src) =>
        \A i \in DOMAIN pulled :
            LoneCRAt(i) =>
                \/ pc = "loop" /\ Len(pulled) = i
                \/ panicked = "CRWithoutLF"

(***************************************************************************)
(* C3.  Concatenation.  As claimed: for every split of a byte input into A *)
(* and B (all three scanned without panic), the tokens of the input are    *)
(* the tokens of A followed by the tokens of B.                            *)
(* Fails for  a a : Text(aa) is not Text(a), Text(a).                      *)
(***************************************************************************)
Front(s, k) == SubSeq(s, 1, k)
Back(s, k) == SubSeq(s, k + 1, Len(s))

C3_ConcatAnySplit ==
    (BytesOnly(src) /\ pc = "idle" /\ Ends >= 1) =>
        \A k \in 0..Len(src) :
            LET ta == Tokenize(Front(src, k))
                tb == Tokenize(Back(src, k))
            IN  (ta.end = "NoMore" /\ tb.end = "NoMore") =>
                    Emitted = ta.toks \o tb.toks

(***************************************************************************)
(* C3 as amended.  When A is scanned without panic and is empty or ends    *)
(* with a space or one of ( ) $ # = , the scan of A followed by B returns  *)
(* the tokens of A, then the tokens of B, and ends as the scan of B ends.  *)
(***************************************************************************)
EndsAtBoundary(a) == a = <<>> \/ a[Len(a)] \in PunctBytes \cup {SP}

C3_ConcatAtBoundary ==
    (BytesOnly(src) /\ ScanDone) =>
        \A k \in 0..Len(src) :
            LET ta == Tokenize(Front(src, k))
                tb == Tokenize(Back(src, k))
            IN  (ta.end = "NoMore" /\ EndsAtBoundary(Front(src, k))) =>
                    /\ Emitted = ta.toks \o tb.toks
                    /\ (pc = "panic") <=> (tb.end = "Panic")

C3_Witness ==
    /\ BytesOnly(src)
    /\ ScanDone
    /\ \E k \in 1..(Len(src) - 1) :
          LET ta == Tokenize(Front(src, k))
              tb == Tokenize(Back(src, k))
          IN  /\ EndsAtBoundary(Front(src, k))
              /\ ta.end = "NoMore"
              /\ ta.toks # <<>> /\ ta.toks[Len(ta.toks)].kind = "Text"
              /\ tb.toks # <<>> /\ tb.toks[1].kind \in {"Text", "Number"}
              /\ Emitted = ta.toks \o tb.toks

(***************************************************************************)
(* C4.  Digits with an optional '-' whose value v is an i32: no panic, the *)
(* first call returns Number(v) and every later call None.  Leading zeros  *)
(* do not change v and the sign is applied.                                *)
(***************************************************************************)
C4_NumberInRange ==
    (gen[1] = "num" /\ NumInRange(gen[2], gen[4], gen[5])) =>
        /\ panicked = ""
        /\ ResultsWithin(<<TokNumber(NumValue(gen[2], gen[4], gen[5]))>>)

C4_Witness ==
    /\ gen = <<"num", TRUE, 2, 12, 3>>
    /\ src = <<45, 48, 48, 49, 50, 51>>
    /\ results = <<TokNumber(-123), NoMore>>

(***************************************************************************)
(* C5.  An ASCII identifier [A-Za-z_][A-Za-z0-9_]*: no panic, the first    *)
(* call returns Text(input bytes) and every later call None.               *)
(***************************************************************************)
C5_IdentOneText ==
    AsciiIdent(src) => panicked = "" /\ ResultsWithin(<<TokText(src)>>)

C5_Witness ==
    /\ gen = <<"ident">>
    /\ src = <<95, 57, 90>>
    /\ results = <<TokText(<<95, 57, 90>>), NoMore>>

(***************************************************************************)
(* C6.  A '-' pulled in Mode::None: when the lookahead is a digit the step *)
(* does not panic and enters Mode::Number; otherwise (no lookahead or any  *)
(* other byte) the step panics and returns no token.                       *)
(***************************************************************************)
C6_MinusNeedsDigit ==
    [][ (pc = "loop" /\ mode = "None" /\ PullItem = Minus) =>
            IF LookItem \in 48..57
            THEN pc' = "loop" /\ mode' = "Number" /\ panicked' = ""
                              /\ results' = results
            ELSE pc' = "panic" /\ panicked' = "MinusWithoutNumber"
                               /\ results' = results ]_vars

C6_Witness ==
    /\ src = <<40, Minus, SP>>
    /\ panicked = "MinusWithoutNumber"
    /\ pulled = <<"None", "None">>
    /\ results = <<TokPunct("LParen")>>

(***************************************************************************)
(* C7.  Digits with an optional '-' whose value is not an i32: no call     *)
(* returns, no token is emitted and the only way the scan ends is the      *)
(* panic of the number parse.  2147483647 and -2147483648 are accepted.    *)
(***************************************************************************)
C7_OutOfRangeAborts ==
    /\ (gen[1] = "num" /\ ~NumInRange(gen[2], gen[4], gen[5])) =>
          /\ results = <<>>
          /\ pc # "loop" => (pc = "idle" /\ pulled = <<>>)
                              \/ (pc = "panic" /\ panicked = "ParseIntError")
    /\ (gen[1] = "num" /\ gen[4] = 214748364 /\ ~gen[2] /\ gen[5] = 7) =>
          panicked = "" /\ ResultsWithin(<<TokNumber(I32Max)>>)
    /\ (gen[1] = "num" /\ gen[4] = 214748364 /\ gen[2] /\ gen[5] = 8) =>
          panicked = "" /\ ResultsWithin(<<TokNumber(I32Min)>>)

C7_Witness ==
    /\ gen = <<"num", TRUE, 0, 214748364, 9>>
    /\ pc = "panic"
    /\ panicked = "ParseIntError"
    /\ Len(pulled) = 11

(***************************************************************************)
(* C8.  A byte ( ) $ # = , pulled in Mode::None returns its token in that  *)
(* step, having pulled that byte only, whatever follows it; an input that  *)
(* is one such byte yields that token and then None.                       *)
(***************************************************************************)
C8_PunctStep ==
    [][ (pc = "loop" /\ mode = "None" /\ PullItem \in PunctBytes) =>
            /\ pc' = "idle"
            /\ panicked' = ""
            /\ results' = Append(results, PunctOf(PullItem))
            /\ pulled' = Append(pulled, "None") ]_vars

C8_PunctAlone ==
    (Len(src) = 1 /\ src[1] \in PunctBytes) =>
        panicked = "" /\ ResultsWithin(<<PunctOf(src[1])>>)

C8_Punct == C8_PunctStep /\ []C8_PunctAlone

C8_Witness ==
    /\ src = <<36, 215>>
    /\ results = <<TokPunct("Dollar")>>
    /\ pc = "idle"
    /\ pulled = <<"None">>

(***************************************************************************)
(* C9.  Lexemes written left to right, with a space wherever two adjacent  *)
(* lexemes would merge: no panic, the k-th call returns the token of the   *)
(* k-th lexeme and the calls after the last lexeme return None.            *)
(***************************************************************************)
C9_TokensInOrder ==
    gen[1] = "lex" => panicked = "" /\ ResultsWithin(LexTokens(gen[2]))

C9_Witness ==
    /\ gen = ExampleLex
    /\ src = <<40, 102, 111, 111, 32, 36, 32, 52, 50, 32, 44, 32, 45, 51, 41>>
    /\ results = <<TokPunct("LParen"), TokText(<<102, 111, 111>>), TokPunct("Dollar"),
                   TokNumber(42), TokPunct("Comma"), TokNumber(-3),
                   TokPunct("RParen"), NoMore>>

(***************************************************************************)
(* C10.  None is terminal: once a call has returned None every later call  *)
(* returns None, whatever the byte source does.                            *)
(* Fails: a read failure makes a call return None and the next call goes   *)
(* on with the bytes the source supplies after it.                         *)
(***************************************************************************)
C10_NoMoreIsTerminal ==
    \A i, j \in DOMAIN results :
        (i < j /\ results[i] = NoMore) => results[j] = NoMore

(***************************************************************************)
(* C11.  A read failure is handled like the end of the input: up to the    *)
(* first None or panic, the scan of a source whose first failure is at     *)
(* item k returns what the scan of the items before k returns, ends the    *)
(* same way, and raises no error of its own.                               *)
(***************************************************************************)
FirstErr(s) == CHOOSE i \in DOMAIN s : s[i] = ERR /\ \A j \in 1..(i - 1) : s[j] # ERR

\* The results before the first None.
RECURSIVE UpToNoMore(_)
UpToNoMore(r) ==
    IF r = <<>> \/ Head(r) = NoMore THEN <<>> ELSE <<Head(r)>> \o UpToNoMore(Tail(r))

PanicMessages == {"UnhandledByte", "CRWithoutLF", "MinusWithoutNumber", "ParseIntError"}

C11_ReadFailureIsEnd ==
    (~BytesOnly(src) /\ ScanDone) =>
        LET t == Tokenize(Front(src, FirstErr(src) - 1)) IN
        /\ UpToNoMore(results) = t.toks
        /\ (Ends = 0) <=> (t.end = "Panic")
        /\ panicked \in PanicMessages \cup {""}

C11_Witness ==
    /\ src = <<97, 49, ERR>>
    /\ results = <<TokText(<<97, 49>>), NoMore>>
    /\ pulled = <<"None", "Text", "None">>

(***************************************************************************)
(* C12.  Each fatal condition aborts the scan in the step that meets it:   *)
(* the step panics and returns nothing, the results are those of the calls *)
(* that returned before, and no step follows a panic.                      *)
(***************************************************************************)
IdleBytes ==
    {CR, 95, Minus, SP} \cup PunctBytes \cup (48..57) \cup (65..90) \cup (97..122)
        \cup (192..214) \cup (216..246) \cup (248..255)

\* The panic the step about to be taken has to raise ("" for none).
FatalNow ==
    IF pc # "loop" \/ PullItem \notin Byte THEN ""
    ELSE IF mode = "Newline" /\ PullItem # LF THEN "CRWithoutLF"
    ELSE IF mode = "None" /\ PullItem \notin IdleBytes THEN "UnhandledByte"
    ELSE IF mode = "None" /\ PullItem = Minus /\ LookItem \notin 48..57
         THEN "MinusWithoutNumber"
    ELSE IF /\ gen[1] = "num" /\ ~NumInRange(gen[2], gen[4], gen[5])
            /\ Len(pulled) + 1 = Len(src)
         THEN "ParseIntError"
    ELSE ""

C12_FatalAborts ==
    [][ /\ pc # "panic"
        /\ FatalNow # "" =>
              pc' = "panic" /\ panicked' = FatalNow /\ results' = results
        /\ panicked' # "" => pc' = "panic" /\ results' = results ]_vars

C12_Witness ==
    /\ src = <<40, 97, LF>>
    /\ pc = "panic"
    /\ panicked = "UnhandledByte"
    /\ results = <<TokPunct("LParen"), TokText(<<97>>)>>

(***************************************************************************)
(* C13.  CR LF is consumed and the byte after it is read in Mode::None:    *)
(* an input X CR LF Y, the CR pulled in Mode::None after X's tokens, gives *)
(* the tokens of X followed by the tokens of Y and ends as Y ends.         *)
(* Fails: the mode stays Newline after LF, so any Y that does not start    *)
(* with LF panics.                                                         *)
(***************************************************************************)
C13_CRLFThenIdle ==
    (BytesOnly(src) /\ ScanDone) =>
        \A k \in 0..(Len(src) - 2) :
            (/\ src[k + 1] = CR /\ src[k + 2] = LF
             /\ Len(pulled) > k /\ pulled[k + 1] = "None") =>
                LET tx == Tokenize(Front(src, k))
                    ty == Tokenize(Back(src, k + 2))
                IN  tx.end = "NoMore" =>
                        /\ Emitted = tx.toks \o ty.toks
                        /\ (pc = "panic") <=> (ty.end = "Panic")

(***************************************************************************)
(* C14.  At the end of the input a Text or Number token in progress is     *)
(* returned with every byte accumulated, the byte just pulled included;    *)
(* a pull at the end of the input in Mode::None returns None and does not  *)
(* panic, which is what the call after that token does.                    *)
(***************************************************************************)
\* The value of a short run of digits with an optional '-'.
RECURSIVE DigitsValue(_)
DigitsValue(ds) ==
    IF ds = <<>> THEN 0
    ELSE DigitsValue(SubSeq(ds, 1, Len(ds) - 1)) * 10 + (ds[Len(ds)] - 48)

ShortValue(b) == IF b[1] = Minus THEN 0 - DigitsValue(Tail(b)) ELSE DigitsValue(b)

C14_FlushAtEnd ==
    [][ /\ (pc = "loop" /\ mode = "Text" /\ LookItem = EOF) =>
              /\ results' = Append(results, TokText(Append(buf, PullItem)))
              /\ pc' = "idle" /\ panicked' = ""
        /\ (pc = "loop" /\ mode = "Number" /\ LookItem = EOF /\ Len(buf) < 9) =>
              /\ results' = Append(results, TokNumber(ShortValue(Append(buf, PullItem))))
              /\ pc' = "idle" /\ panicked' = ""
        /\ (pc = "loop" /\ mode = "None" /\ PullItem = EOF) =>
              /\ results' = Append(results, NoMore)
              /\ pc' = "idle" /\ panicked' = "" ]_vars

C14_Witness ==
    /\ src = <<Minus, 49, 49>>
    /\ results = <<TokNumber(-11), NoMore>>
    /\ pulled = <<"None", "Number", "Number">>

(***************************************************************************)
(* C15.  In Mode::None a byte that is not CR, a letter-class byte, a       *)
(* digit, '-', one of ( ) $ # = , or a space panics as an unhandled byte   *)
(* and returns no token; so do LF, tab, 0xD7, 0xF7 and 0x80 ... 0xBF.      *)
(***************************************************************************)
C15_UnhandledByte ==
    [][ (pc = "loop" /\ mode = "None" /\ PullItem \in Byte) =>
            IF PullItem \in IdleBytes
            THEN panicked' # "UnhandledByte"
            ELSE pc' = "panic" /\ panicked' = "UnhandledByte" /\ results' = results ]_vars

C15_NamedBytes == {LF, 9, 215, 247} \cup (128..191)

C15_NamedBytesPanic ==
    (Len(src) = 1 /\ src[1] \in C15_NamedBytes /\ pc # "idle") =>
        (pc = "loop" /\ pulled = <<>>) \/ panicked = "UnhandledByte"

C15_Unhandled == C15_UnhandledByte /\ []C15_NamedBytesPanic

C15_Witness ==
    /\ src = <<247, 97>>
    /\ panicked = "UnhandledByte"
    /\ results = <<>>
    /\ pulled = <<"None">>

(***************************************************************************)
(* C16.  The bytes that continue an identifier are the same after the      *)
(* first letter and inside Mode::Text: the start set plus the digits.  An  *)
(* input of a start byte and continuation bytes is one Text token of those *)
(* bytes; a byte outside the set ends the token at that byte wherever it   *)
(* stands; a digit never starts a Text token.                              *)
(***************************************************************************)
StartSet == (65..90) \cup (97..122) \cup {95} \cup (192..214) \cup (216..246) \cup (248..255)
ContSet == StartSet \cup (48..57)

\* The length of the longest prefix of s made of continuation bytes.
RECURSIVE ContRun(_)
ContRun(s) == IF s = <<>> \/ s[1] \notin ContSet THEN 0 ELSE 1 + ContRun(Tail(s))

C16_SameContinuation ==
    /\ (src # <<>> /\ src[1] \in StartSet /\ ContRun(src) = Len(src)) =>
          panicked = "" /\ ResultsWithin(<<TokText(src)>>)
    /\ (src # <<>> /\ src[1] \in StartSet /\ results # <<>>) =>
          results[1] = TokText(Front(src, ContRun(src)))
    /\ (src # <<>> /\ src[1] \in 48..57 /\ results # <<>>) =>
          results[1].kind # "Text"

C16_Witness ==
    /\ gen = <<"xident">>
    /\ src = <<248, 57, 214>>
    /\ results = <<TokText(<<248, 57, 214>>), NoMore>>
    /\ pulled = <<"None", "Text", "Text">>

(***************************************************************************)
(* C17.  A call of next starts in Mode::None with an empty buffer whatever *)
(* the previous call left, the iterator's position and slot untouched; and *)
(* what a call does depends on the position and the slot only.             *)
(***************************************************************************)
Modes == {"None", "Newline", "Text", "Number"}

C17_EntryResets ==
    [][ (pc = "idle" /\ pc' = "loop") =>
            /\ mode' = "None" /\ buf' = <<>>
            /\ pos' = pos /\ peeked' = peeked ]_vars

C17_OnlyIteratorCarried ==
    pc = "idle" =>
        \A m \in Modes, b \in {<<>>, <<97>>, <<Minus, 49>>} :
            CallNext(src, [Scanner EXCEPT !.mode = m, !.buf = b]) = CallNext(src, Scanner)

C17_CallsIndependent == C17_EntryResets /\ []C17_OnlyIteratorCarried

C17_Witness ==
    /\ src = <<CR>>
    /\ results = <<NoMore>>
    /\ pc = "loop"
    /\ mode = "None"
    /\ buf = <<>>
    /\ pulled = <<"None">>

(***************************************************************************)
(* C18.  In Mode::Text the byte about to be pulled is in the slot and      *)
(* continues an identifier; in Mode::Number it is in the slot and is a     *)
(* digit.  The buffer of a Number token is an optional '-' and at least    *)
(* one digit, the buffer of a Text token starts with a letter-class byte,  *)
(* and the number parse panics only on a value that is no i32.             *)
(***************************************************************************)
IsDigits(s) == \A i \in DOMAIN s : s[i] \in 48..57

Unsigned(b) == IF b # <<>> /\ b[1] = Minus THEN Tail(b) ELSE b

NumberText(b) == Unsigned(b) # <<>> /\ IsDigits(Unsigned(b))

RECURSIVE StripZeros(_)
StripZeros(s) == IF s # <<>> /\ s[1] = 48 THEN StripZeros(Tail(s)) ELSE s

\* a > b for digit strings of the same length.
RECURSIVE DigitsGreater(_, _)
DigitsGreater(a, b) ==
    IF a = <<>> THEN FALSE
    ELSE IF a[1] # b[1] THEN a[1] > b[1]
    ELSE DigitsGreater(Tail(a), Tail(b))

MaxDigits == <<50, 49, 52, 55, 52, 56, 51, 54, 52, 55>>
MinDigits == <<50, 49, 52, 55, 52, 56, 51, 54, 52, 56>>

NotAnI32(b) ==
    LET d == StripZeros(Unsigned(b)) IN
    \/ Len(d) > 10
    \/ Len(d) = 10 /\ DigitsGreater(d, IF b[1] = Minus THEN MinDigits ELSE MaxDigits)

LastResult == results[Len(results)]

C18_BufferInvariant ==
    /\ (pc = "loop" /\ mode = "Text") =>
          /\ PullItem \in ContSet /\ peeked = <<PullItem>>
          /\ buf # <<>> /\ buf[1] \in StartSet
    /\ (pc = "loop" /\ mode = "Number") =>
          /\ PullItem \in 48..57 /\ peeked = <<PullItem>>
          /\ buf # <<>> /\ IsDigits(Unsigned(buf))
    /\ (pc = "idle" /\ results # <<>> /\ LastResult.kind = "Number") =>
          NumberText(buf) /\ ~NotAnI32(buf)
    /\ (pc = "idle" /\ results # <<>> /\ LastResult.kind = "Text") =>
          buf = LastResult.bytes /\ buf # <<>> /\ buf[1] \in StartSet
    /\ panicked = "ParseIntError" => NumberText(buf) /\ NotAnI32(buf)

C18_Witness ==
    /\ gen = <<"num", TRUE, 1, 214748364, 9>>
    /\ panicked = "ParseIntError"
    /\ buf = <<Minus, 48>> \o SubSeq(MinDigits, 1, 9) \o <<57>>

(***************************************************************************)
(* C19.  Maximal munch, lookahead not consumed: after a Text token the     *)
(* next item of the input is no continuation byte, after a Number token it *)
(* is no digit; the next pull takes exactly the next item of the input, so *)
(* items are pulled once each, in order, and none is skipped.              *)
(* ab( gives Text(ab), LParen and 12a gives Number(12), Text(a).           *)
(***************************************************************************)
C19_MaximalMunch ==
    /\ (pc = "idle" /\ results # <<>> /\ LastResult.kind = "Text") =>
          PullItem \notin ContSet
    /\ (pc = "idle" /\ results # <<>> /\ LastResult.kind = "Number") =>
          PullItem \notin 48..57
    /\ pc # "panic" => PeekableNext(src, pos, peeked).item = PullItem
    /\ Len(pulled) <= Len(src)
    /\ (BytesOnly(src) /\ pc = "idle" /\ Ends >= 1) => Len(pulled) = Len(src)
    /\ src = <<97, 98, 40>> =>
          panicked = "" /\ ResultsWithin(<<TokText(<<97, 98>>), TokPunct("LParen")>>)
    /\ src = <<49, 50, 97>> =>
          panicked = "" /\ ResultsWithin(<<TokNumber(12), TokText(<<97>>)>>)

C19_Witness ==
    /\ src = <<49, 50, 97>>
    /\ results = <<TokNumber(12), TokText(<<97>>), NoMore>>
    /\ pulled = <<"None", "Number", "None">>

(***************************************************************************)
(* C20.  Termination: every loop iteration pulls one item or returns at    *)
(* the end of the input, the items pulled never exceed the input, every    *)
(* call returns or panics, and repeated calls reach None or a panic.       *)
(***************************************************************************)
C20_IterationPulls ==
    [][ pc = "loop" =>
            \/ Len(pulled') = Len(pulled) + 1
            \/ PullItem = EOF /\ pc' = "idle" /\ pulled' = pulled ]_vars

C20_PullsBounded == Len(pulled) <= Len(src)

C20_CallReturns == (pc = "loop") ~> (pc # "loop")

C20_ScanEnds == <>ScanDone

C20_Termination ==
    C20_IterationPulls /\ []C20_PullsBounded /\ C20_CallReturns /\ C20_ScanEnds

C20_Witness ==
    /\ gen = ExampleLex
    /\ ScanDone
    /\ Ends = 1
    /\ Len(pulled) = 15
    /\ Len(results) = 8

====
